---- MODULE Spec2Model ----
(***************************************************************************)
(* Job controller of the CVAT dataset converter frontend                   *)
(* (src/frontend/js/app.js) together with the DOM helpers it drives        *)
(* (dom.js, second half of src/backend/frontend/js/api.js) and the four    *)
(* transport calls it awaits (api.js).                                     *)
(*                                                                         *)
(* The page is single threaded: a handler runs from its event to its next  *)
(* await, and from the completion of the awaited request to its end, with  *)
(* no other event in between.  Each such run is one action.  Requests that *)
(* have been sent and not yet answered are kept in bags; the browser's     *)
(* timers are a set of their own, apart from the two ids the controller    *)
(* remembers in its state object.                                          *)
(***************************************************************************)
EXTENDS Integers, FiniteSets, Sequences, Bags, TLC

VARIABLES
    state,        \* the module-level state object of app.js
    dom,          \* what dom.js has written to the page
    timers,       \* timers the browser holds live
    nextTimerId,  \* the id the browser hands out next
    nextTicket,   \* number of the next ticket getSessionId returns
    uploads,      \* POST /upload requests in flight
    polls,        \* GET /status requests in flight
    cancels,      \* POST /cancel requests in flight (by ticket)
    downloads,    \* GET /download requests in flight (by ticket)
    last,         \* the handler run that produced this state, and what has
                  \* happened before it (history, read by the properties only)
    call          \* one call of a transport function of api.js, followed from
                  \* its arguments to its result (the transport specification)

vars == <<state, dom, timers, nextTimerId, nextTicket,
          uploads, polls, cancels, downloads, last, call>>

-----------------------------------------------------------------------------
(* Bounds of the model.                                                    *)

\* Spec: tickets getSessionId hands out in one behaviour, status requests
\* in flight at once, cancel and download requests in flight at once
MaxJobs == 2
MaxPolls == 2
MaxRequests == 2
\* SpecDeep: the same three, for three Jobs in a row
DeepJobs == 3
DeepPolls == 1
DeepRequests == 1

-----------------------------------------------------------------------------
(* Values.                                                                 *)

\* state.ticketId: null
NoTicket == 0
\* state.statusPollTimeoutId / statusPollIntervalId: null
NoTimer == 0
\* progressPct / lastUploadProgressPct: null
NoProgress == -1
\* state.file: null
NoFile == ""
\* an absent (falsy) string field of a payload, and lastStatusState: null
NoState == ""

\* what the user picks in the form (a pick is not taken back)
Files == {"a.zip"}
InputFormats == {"cvat_images_1_1"}
TargetFormats == {"yolo"}
FeatureTypes == {"convert_only", "crop_objects"}

\* states an upload acknowledgement may carry
UploadReports == {NoState, "uploaded"}
\* states a status payload may carry ("bogus": a value outside the contract)
StatusReports == {NoState, "processing_dataset", "ready", "error", "cancelled", "bogus"}
\* upload.progress of a status payload, in hundredths
Progresses == {NoProgress, 50}
\* err.message of a rejected transport call
ErrMessages == {"HTTP 500"}

\* an absent detail field of a payload
NoDetail == ""
\* the detail a status payload may carry beside the state error
Details == {"disk full"}

\* a status payload: JSON null, or an object
NullPayload ==
    [isNull |-> TRUE, state |-> NoState, label_meta |-> FALSE, progress |-> NoProgress,
     detail |-> NoDetail]

\* Spec: every report, with and without label metadata
StatusPayloads ==
    {NullPayload}
    \cup
    [isNull : {FALSE}, state : StatusReports, label_meta : BOOLEAN, progress : {NoProgress},
     detail : {NoDetail}]
    \cup
    [isNull : {FALSE}, state : {"error"}, label_meta : {FALSE}, progress : {NoProgress},
     detail : Details]

\* SpecDeep: one report of each kind
DeepPayloads ==
    [isNull : {FALSE}, state : {"processing_dataset", "ready", "error"},
     label_meta : {FALSE}, progress : {NoProgress}, detail : {NoDetail}]

\* SpecQuiet: every usable payload, with upload progress
QuietPayloads ==
    [isNull : {FALSE}, state : StatusReports, label_meta : BOOLEAN, progress : Progresses,
     detail : {NoDetail}]

NoMessage == [type |-> "", kind |-> "", ticket |-> NoTicket, text |-> "", pct |-> NoProgress]

-----------------------------------------------------------------------------
(* dom.js                                                                  *)

ShowStatus(w, type, kind, ticket, text, pct) ==
    [w EXCEPT !.dom.status =
        [type |-> type, kind |-> kind, ticket |-> ticket, text |-> text, pct |-> pct]]

ClearStatus(w) == [w EXCEPT !.dom.status = NoMessage]

SetNextButton(w, label, enabled) ==
    [w EXCEPT !.dom.button = [label |-> label, enabled |-> enabled]]

ToggleFeatureOptions(w, featureType) ==
    [w EXCEPT !.dom.targetFormatHidden = (featureType = "crop_objects")]

\* as SetAllInputsDisabled, the controls left as they are
SetAllInputsDisabled_Ignored(w, disabled) == w

SetAllInputsDisabled(w, disabled) == [w EXCEPT !.dom.inputsDisabled = disabled]

\* The log is kept as the set of the kinds of line it holds; the blocks of
\* label metadata in it are counted.
AppendLogLine(w, line) == [w EXCEPT !.dom.log.lines = @ \cup {line}]

AppendLabelMeta(w) ==
    [w EXCEPT !.dom.log.lines = @ \cup {"Label metadata:"},
              !.dom.log.metaBlocks = @ + 1]

ClearLog(w) == [w EXCEPT !.dom.log = [lines |-> {}, metaBlocks |-> 0]]

ReadyLine == "Ready. Select a dataset ZIP"

-----------------------------------------------------------------------------
(* app.js: helpers                                                         *)

\* as IsStateValidForUpload, a target format wanted for every feature type
IsStateValidForUpload_TargetAlways(s) ==
    /\ s.file # NoFile
    /\ s.inputFormat # ""
    /\ s.featureType # ""
    /\ s.targetFormat # ""

IsStateValidForUpload(s) ==
    IF s.file = NoFile \/ s.inputFormat = "" \/ s.featureType = ""
    THEN FALSE
    ELSE IF s.featureType = "crop_objects"
         THEN TRUE
         ELSE s.targetFormat # ""

IsProcessingTicketState(ticketState) ==
    \/ ticketState = "uploading"
    \/ ticketState = "uploaded"
    \/ ticketState = "extracting_label_meta"
    \/ ticketState = "labels_meta_extracted"
    \/ ticketState = "processing_dataset"

RefreshNextButtonState(w) ==
    LET s == w.state IN
    IF s.ticketId = NoTicket \/ s.ticketState = "idle"
    THEN SetNextButton(w, "Upload & Process", IsStateValidForUpload(s) /\ ~s.isUploading)
    ELSE IF s.isUploading
    THEN SetNextButton(w, "Uploading...", FALSE)
    ELSE IF IsProcessingTicketState(s.ticketState)
    THEN SetNextButton(w, "Cancel", TRUE)
    ELSE IF s.ticketState = "ready"
    THEN SetNextButton(w, "Download", TRUE)
    ELSE SetNextButton(w, "Start over", TRUE)

\* as TargetFormatToSend, the selected target format sent for every feature type
TargetFormatToSend_AsSelected(s) == s.targetFormat

TargetFormatToSend(s) ==
    IF s.featureType = "crop_objects" THEN "" ELSE s.targetFormat

\* clearTimeout / clearInterval of an id that is no longer live does nothing
StopStatusPolling(w) ==
    [w EXCEPT !.timers = {t \in @ : /\ t.id # w.state.statusPollTimeoutId
                                    /\ t.id # w.state.statusPollIntervalId},
              !.state.statusPollTimeoutId = NoTimer,
              !.state.statusPollIntervalId = NoTimer]

\* window.setTimeout(..., initialDelayMs); the id is kept in the state
StartStatusPolling(w) ==
    IF w.state.ticketId = NoTicket
    THEN w
    ELSE LET w1 == StopStatusPolling(w) IN
         [w1 EXCEPT !.timers = @ \cup {[id |-> w1.nextTimerId, kind |-> "timeout",
                                        chain |-> w1.state.ticketId]},
                    !.state.statusPollTimeoutId = w1.nextTimerId,
                    !.nextTimerId = @ + 1]

\* the rest of the timeout callback, after "await pollStatusOnce()":
\* window.setInterval(pollStatusOnce, intervalMs), the id kept in the state
ArmPollInterval(w, chain) ==
    [w EXCEPT !.timers = @ \cup {[id |-> w.nextTimerId, kind |-> "interval",
                                  chain |-> chain]},
              !.state.statusPollIntervalId = w.nextTimerId,
              !.nextTimerId = @ + 1]

\* as ResetFrontendState, the selected file cleared as well
ResetFrontendState_ClearsFile(w) ==
    LET w1 == StopStatusPolling(w)
        w2 == [w1 EXCEPT !.state.ticketId = NoTicket,
                         !.state.ticketState = "idle",
                         !.state.isUploading = FALSE,
                         !.state.labelMetaShown = FALSE,
                         !.state.lastStatusState = NoState,
                         !.state.lastUploadProgressPct = NoProgress,
                         !.state.file = NoFile]
        w3 == ClearLog(ClearStatus(SetAllInputsDisabled(w2, FALSE)))
    IN RefreshNextButtonState(AppendLogLine(w3, ReadyLine))

ResetFrontendState(w) ==
    LET w1 == StopStatusPolling(w)
        w2 == [w1 EXCEPT !.state.ticketId = NoTicket,
                         !.state.ticketState = "idle",
                         !.state.isUploading = FALSE,
                         !.state.labelMetaShown = FALSE,
                         !.state.lastStatusState = NoState,
                         !.state.lastUploadProgressPct = NoProgress]
        w3 == ClearLog(ClearStatus(SetAllInputsDisabled(w2, FALSE)))
    IN RefreshNextButtonState(AppendLogLine(w3, ReadyLine))

\* err && err.message ? err.message : fallback
ErrText(message, fallback) == IF message # "" THEN message ELSE fallback

-----------------------------------------------------------------------------
(* app.js: pollStatusOnce, from the answer of fetchUploadStatus on         *)

\* as IsTerminalReport, ready ending the poll loop as well
IsTerminalReport_ReadyStops(backendState) ==
    \/ backendState = "error"
    \/ backendState = "cancelled"
    \/ backendState = "unknown"
    \/ backendState = "ready"

\* which reports end the poll loop
IsTerminalReport(backendState) ==
    \/ backendState = "error"
    \/ backendState = "cancelled"
    \/ backendState = "unknown"

\* the catch block
PollFailed(w, message) ==
    LET msg == ErrText(message, "Unable to fetch status from backend.")
        w1 == ShowStatus(w, "error", "poll_error", NoTicket, msg, NoProgress)
        w2 == AppendLogLine(w1, "Status polling error")
    IN RefreshNextButtonState(StopStatusPolling(w2))

\* the try block; reading label_meta of a null payload throws into the catch
PollAnswered(w, status) ==
    LET backendState == IF ~status.isNull /\ status.state # NoState
                        THEN status.state ELSE "unknown"
        progressPct == IF ~status.isNull THEN status.progress ELSE NoProgress
        w1 == [w EXCEPT !.state.ticketState = backendState]
        w2 == IF backendState # w1.state.lastStatusState
              THEN AppendLogLine([w1 EXCEPT !.state.lastStatusState = backendState], "State")
              ELSE w1
        w3 == IF progressPct # NoProgress /\ progressPct # w2.state.lastUploadProgressPct
              THEN AppendLogLine([w2 EXCEPT !.state.lastUploadProgressPct = progressPct],
                                 "Upload progress")
              ELSE w2
        w4 == ShowStatus(w3, "info", "poll", w3.state.ticketId, backendState, progressPct)
    IN IF status.isNull
       THEN PollFailed(w4, "Cannot read properties of null")
       ELSE LET w5 == IF status.label_meta /\ ~w4.state.labelMetaShown
                      THEN AppendLabelMeta([w4 EXCEPT !.state.labelMetaShown = TRUE])
                      ELSE w4
                w6 == IF IsTerminalReport(backendState) THEN StopStatusPolling(w5) ELSE w5
            IN RefreshNextButtonState(w6)

-----------------------------------------------------------------------------
(* app.js: handleStartUpload                                               *)

\* from the ticket to the upload request
SubmitStarted(w, ticket) ==
    LET w1 == [w EXCEPT !.state.ticketId = ticket,
                        !.state.ticketState = "uploading",
                        !.state.labelMetaShown = FALSE,
                        !.state.lastStatusState = NoState,
                        !.state.lastUploadProgressPct = NoProgress]
        w2 == AppendLogLine(AppendLogLine(ClearLog(ClearStatus(w1)), "Starting new job"),
                            "Uploading dataset to backend")
        w3 == StopStatusPolling(w2)
        w4 == SetAllInputsDisabled([w3 EXCEPT !.state.isUploading = TRUE], TRUE)
    IN RefreshNextButtonState(w4)

UploadRequest(s, ticket) ==
    [session_id |-> ticket, input_format |-> s.inputFormat,
     target_format |-> TargetFormatToSend(s), feature_type |-> s.featureType]

\* the try block after the await, then finally
UploadSucceeded(w, ticket, report) ==
    LET w1 == IF report # NoState THEN [w EXCEPT !.state.ticketState = report] ELSE w
        w2 == AppendLogLine(w1, "Upload completed on backend.")
        w3 == ShowStatus(w2, "success", "upload_ok", ticket, "", NoProgress)
        w4 == StartStatusPolling(w3)
    IN RefreshNextButtonState([w4 EXCEPT !.state.isUploading = FALSE])

\* the catch block, then finally
UploadFailed(w, message) ==
    LET msg == ErrText(message, "Network error while sending upload request.")
        w1 == ShowStatus(w, "error", "upload_error", NoTicket, msg, NoProgress)
        w2 == AppendLogLine(w1, "Upload error")
        w3 == ResetFrontendState(w2)
    IN RefreshNextButtonState([w3 EXCEPT !.state.isUploading = FALSE])

ValidationFailed(w) ==
    ShowStatus(w, "error", "validation", NoTicket, "Please select a ZIP file", NoProgress)

-----------------------------------------------------------------------------
(* app.js: handleCancel, handleDownload                                    *)

CancelStarted(w) ==
    ShowStatus(AppendLogLine(w, "Cancelling ticket"),
               "info", "cancelling", NoTicket, "", NoProgress)

CancelFinished(w, ok, message) ==
    LET w1 == IF ok
              THEN AppendLogLine(w, "Ticket cancelled")
              ELSE ShowStatus(AppendLogLine(w, "Cancel error"), "error", "cancel_error",
                              NoTicket, ErrText(message, "Failed to cancel ticket."),
                              NoProgress)
    IN ResetFrontendState(StopStatusPolling(w1))

DownloadStarted(w) ==
    ShowStatus(AppendLogLine(w, "Downloading output"),
               "info", "downloading", NoTicket, "", NoProgress)

DownloadFinished(w, ok, message) ==
    LET w1 == IF ok
              THEN ShowStatus(AppendLogLine(w, "Download complete."), "success",
                              "download_ok", NoTicket, "", NoProgress)
              ELSE ShowStatus(AppendLogLine(w, "Download error"), "error", "download_error",
                              NoTicket, ErrText(message, "Download failed."), NoProgress)
    IN ResetFrontendState(StopStatusPolling(w1))

-----------------------------------------------------------------------------
(* api.js: the four transport functions                                    *)

TransportOps == {"upload", "status", "cancel", "download"}

\* HTTP status codes of the responses
OkStatuses == {200}
ErrorStatuses == {404, 500}

\* One entry of a detail list: JSON null, or an object with or without msg.
NullEntry == [isNull |-> TRUE, msg |-> ""]
DetailEntries ==
    {NullEntry, [isNull |-> FALSE, msg |-> ""],
     [isNull |-> FALSE, msg |-> "field required"], [isNull |-> FALSE, msg |-> "bad value"]}

\* longest detail list
MaxDetailLen == 2

DetailLists ==
    UNION {[1..n -> DetailEntries] : n \in 0..MaxDetailLen}

\* The detail of an error payload: absent, JSON null, a string, a number or
\* a list.
DetailValue(kind, str, num, items) ==
    [kind |-> kind, str |-> str, num |-> num, items |-> items]

DetailValues ==
    {DetailValue("absent", "", 0, <<>>), DetailValue("null", "", 0, <<>>)}
    \cup {DetailValue("string", v, 0, <<>>) : v \in {"", "disk full"}}
    \cup {DetailValue("number", "", v, <<>>) : v \in {0, 7}}
    \cup {DetailValue("list", "", 0, l) : l \in DetailLists}

\* What response.json() gives: it rejects (unparsable), or yields JSON null,
\* a JSON value that is no object (scalar), or an object.
Bodies ==
    {[kind |-> k, detail |-> DetailValue("absent", "", 0, <<>>)] :
        k \in {"unparsable", "null", "scalar"}}
    \cup {[kind |-> "object", detail |-> d] : d \in DetailValues}

\* fetch rejected: there is no response
NoResponse ==
    [arrived |-> FALSE, ok |-> FALSE, status |-> 0, isJson |-> FALSE,
     body |-> [kind |-> "unparsable", detail |-> DetailValue("absent", "", 0, <<>>)]]

\* ok is status 2xx; isJson: the content-type header names application/json
Responses ==
    [arrived : {TRUE}, ok : {TRUE}, status : OkStatuses, isJson : BOOLEAN, body : Bodies]
    \cup
    [arrived : {TRUE}, ok : {FALSE}, status : ErrorStatuses, isJson : BOOLEAN, body : Bodies]

\* let errorMessage = `... failed with status ${response.status}`
GenericMessage(op, status) ==
    (CASE op = "upload" -> "Upload"
       [] op = "status" -> "Status check"
       [] op = "cancel" -> "Cancel"
       [] op = "download" -> "Download")
    \o " failed with status " \o ToString(status)

\* a JavaScript value used as a condition
Truthy(d) ==
    CASE d.kind = "absent" -> FALSE
      [] d.kind = "null" -> FALSE
      [] d.kind = "string" -> d.str # ""
      [] d.kind = "number" -> d.num # 0
      [] d.kind = "list" -> TRUE

\* items.join("; "), undefined joined as the empty string
RECURSIVE JoinMessages(_)
JoinMessages(msgs) ==
    IF Len(msgs) = 0 THEN ""
    ELSE IF Len(msgs) = 1 THEN msgs[1]
    ELSE msgs[1] \o "; " \o JoinMessages(Tail(msgs))

\* String(detail) of a string or a number
StringOf(d) == IF d.kind = "number" THEN ToString(d.num) ELSE d.str

\* as ErrorMessage, a detail list not told from a single value
ErrorMessage_NoList(op, r) ==
    LET generic == GenericMessage(op, r.status)
        d == r.body.detail
    IN IF ~r.isJson THEN generic
       ELSE IF r.body.kind # "object" THEN generic
       ELSE IF ~Truthy(d) THEN generic
       ELSE StringOf(d)

\* The message of the Error thrown for a response that is not ok.  Reading
\* msg of a null entry throws inside the try block, and the catch keeps the
\* generic message.
ErrorMessage(op, r) ==
    LET generic == GenericMessage(op, r.status)
        d == r.body.detail
    IN IF ~r.isJson THEN generic
       ELSE IF r.body.kind # "object" THEN generic
       ELSE IF ~Truthy(d) THEN generic
       ELSE IF d.kind = "list"
            THEN IF \E i \in 1..Len(d.items) : d.items[i].isNull
                 THEN generic
                 ELSE JoinMessages([i \in 1..Len(d.items) |-> d.items[i].msg])
            ELSE StringOf(d)

\* as RequiredArgumentMissing, no argument checked
RequiredArgumentMissing_Never(c) == FALSE

\* if (!file) / if (!ticketId) at the head of each function
RequiredArgumentMissing(c) == ~c.arg

MissingArgumentMessage(op) ==
    CASE op = "upload" -> "No file selected."
      [] op = "status" -> "ticketId is required for status polling."
      [] op = "cancel" -> "ticketId is required to cancel a ticket."
      [] op = "download" -> "ticketId is required to download output."

Failure(message) == [kind |-> "failure", message |-> message]
Result == [kind |-> "result", message |-> ""]
Pending == [kind |-> "none", message |-> ""]

\* What the function settles with once fetch has resolved with r.  With an
\* ok response uploadDataset and fetchUploadStatus return the text of a body
\* that is not JSON, cancelTicket returns {}, and they return
\* response.json() otherwise, which rejects for an unparsable body;
\* downloadOutput returns the blob.
Settle(op, r) ==
    IF ~r.ok THEN Failure(ErrorMessage(op, r))
    ELSE IF op = "download" THEN Result
    ELSE IF r.isJson /\ r.body.kind = "unparsable" THEN Failure("Unexpected token")
    ELSE Result

\* no transport call is being followed
NoCall ==
    [op |-> "", arg |-> FALSE, pc |-> "idle", requests |-> 0,
     response |-> NoResponse, outcome |-> Pending]

-----------------------------------------------------------------------------
(* The state machine.                                                      *)

World == [state |-> state, dom |-> dom, timers |-> timers, nextTimerId |-> nextTimerId]

Commit(w) ==
    /\ state' = w.state
    /\ dom' = w.dom
    /\ timers' = w.timers
    /\ nextTimerId' = w.nextTimerId

\* History.  op, ticket, rep, first, meta, detail: the run that has just finished,
\* the ticket it was started for, the state a status payload reported,
\* whether it was the first poll of a timeout, whether the payload carried
\* label metadata, the detail it carried.  afterReset: the Job was reset from error, cancelled or
\* unknown and nothing has been submitted since.  metaSeen: the tickets for
\* which a status payload with label metadata has been handled.
Record(op, ticket, rep, first, meta, detail) ==
    last' = [op |-> op, ticket |-> ticket, rep |-> rep, first |-> first, meta |-> meta,
             detail |-> detail,
             afterReset |->
                 IF op = "Reset" THEN state.ticketState \in {"error", "cancelled", "unknown"}
                 ELSE IF op = "Submit" THEN FALSE
                 ELSE last.afterReset,
             metaSeen |-> IF meta THEN last.metaSeen \cup {ticket} ELSE last.metaSeen]

Did(op, ticket, rep, first) == Record(op, ticket, rep, first, FALSE, NoDetail)

InitState ==
    [file |-> NoFile, inputFormat |-> "", targetFormat |-> "", featureType |-> "",
     isUploading |-> FALSE, ticketId |-> NoTicket, ticketState |-> "idle",
     statusPollTimeoutId |-> NoTimer, statusPollIntervalId |-> NoTimer,
     labelMetaShown |-> FALSE, lastStatusState |-> NoState,
     lastUploadProgressPct |-> NoProgress]

\* the page after the DOMContentLoaded handler
InitPage ==
    /\ state = InitState
    /\ dom = [status |-> NoMessage,
              log |-> [lines |-> {ReadyLine}, metaBlocks |-> 0],
              button |-> [label |-> "Upload & Process", enabled |-> FALSE],
              inputsDisabled |-> FALSE,
              targetFormatHidden |-> FALSE]
    /\ timers = {}
    /\ nextTimerId = 1
    /\ nextTicket = 1
    /\ uploads = {}
    /\ polls = EmptyBag
    /\ cancels = EmptyBag
    /\ downloads = EmptyBag
    /\ last = [op |-> "Init", ticket |-> NoTicket, rep |-> NoState, first |-> FALSE,
               meta |-> FALSE, detail |-> NoDetail, afterReset |-> FALSE, metaSeen |-> {}]

Init == InitPage /\ call = NoCall

InFlightUnchanged == UNCHANGED <<uploads, polls, cancels, downloads>>

\* the change listeners of the four form controls
FileChange ==
    /\ ~dom.inputsDisabled
    /\ \E f \in Files :
         Commit(RefreshNextButtonState(ClearStatus([World EXCEPT !.state.file = f])))
    /\ UNCHANGED call
    /\ Did("FormChange", NoTicket, NoState, FALSE)
    /\ UNCHANGED nextTicket
    /\ InFlightUnchanged

InputFormatChange ==
    /\ ~dom.inputsDisabled
    /\ \E v \in InputFormats :
         Commit(RefreshNextButtonState(ClearStatus([World EXCEPT !.state.inputFormat = v])))
    /\ UNCHANGED call
    /\ Did("FormChange", NoTicket, NoState, FALSE)
    /\ UNCHANGED nextTicket
    /\ InFlightUnchanged

TargetFormatChange ==
    /\ ~dom.inputsDisabled
    /\ ~dom.targetFormatHidden
    /\ \E v \in TargetFormats :
         Commit(RefreshNextButtonState(ClearStatus([World EXCEPT !.state.targetFormat = v])))
    /\ UNCHANGED call
    /\ Did("FormChange", NoTicket, NoState, FALSE)
    /\ UNCHANGED nextTicket
    /\ InFlightUnchanged

FeatureTypeChange ==
    /\ ~dom.inputsDisabled
    /\ \E v \in FeatureTypes :
         Commit(RefreshNextButtonState(ClearStatus(
             ToggleFeatureOptions([World EXCEPT !.state.featureType = v], v))))
    /\ UNCHANGED call
    /\ Did("FormChange", NoTicket, NoState, FALSE)
    /\ UNCHANGED nextTicket
    /\ InFlightUnchanged

\* which branch the click listener of the main button takes.  The click
\* actions are enabled by the listener's own conditions (app.js 103-129 and
\* the guards of each handler), not by the button's disabled attribute: the
\* attribute is kept in dom.button.enabled, and the listener runs whenever a
\* click event is delivered to it.
ClickBranch(s) ==
    IF s.isUploading THEN "ignore"
    ELSE IF s.ticketId = NoTicket \/ s.ticketState = "idle" THEN "upload"
    ELSE IF IsProcessingTicketState(s.ticketState) THEN "cancel"
    ELSE IF s.ticketState = "ready" THEN "download"
    ELSE "reset"

ClickIgnored ==
    /\ ClickBranch(state) = "ignore"
    /\ UNCHANGED call
    /\ Did("ClickIgnored", NoTicket, NoState, FALSE)
    /\ UNCHANGED <<state, dom, timers, nextTimerId, nextTicket>>
    /\ InFlightUnchanged

ClickUploadInvalid ==
    /\ ClickBranch(state) = "upload"
    /\ ~IsStateValidForUpload(state)
    /\ Commit(ValidationFailed(World))
    /\ UNCHANGED call
    /\ Did("ValidationError", NoTicket, NoState, FALSE)
    /\ UNCHANGED nextTicket
    /\ InFlightUnchanged

ClickUpload(maxJobs) ==
    /\ ClickBranch(state) = "upload"
    /\ IsStateValidForUpload(state)
    /\ nextTicket <= maxJobs
    /\ Commit(SubmitStarted(World, nextTicket))
    /\ uploads' = uploads \cup {UploadRequest(state, nextTicket)}
    /\ nextTicket' = nextTicket + 1
    /\ UNCHANGED call
    /\ Did("Submit", nextTicket, NoState, FALSE)
    /\ UNCHANGED <<polls, cancels, downloads>>

UploadResponseOk ==
    \E u \in uploads, report \in UploadReports :
        /\ Commit(UploadSucceeded(World, u.session_id, report))
        /\ uploads' = uploads \ {u}
        /\ UNCHANGED call
        /\ Did("UploadOk", u.session_id, report, FALSE)
        /\ UNCHANGED <<nextTicket, polls, cancels, downloads>>

UploadResponseFail ==
    \E u \in uploads, message \in ErrMessages :
        /\ Commit(UploadFailed(World, message))
        /\ uploads' = uploads \ {u}
        /\ UNCHANGED call
        /\ Did("UploadFail", u.session_id, NoState, FALSE)
        /\ UNCHANGED <<nextTicket, polls, cancels, downloads>>

PollRequest(ticket, first) == [ticket |-> ticket, first |-> first]

\* the timeout of startStatusPolling fires: the first pollStatusOnce, up to
\* its await (without a ticket it returns at once and the interval is armed)
TimeoutFire(maxPolls) ==
    \E t \in timers :
        /\ t.kind = "timeout"
        /\ LET w == [World EXCEPT !.timers = @ \ {t}] IN
           IF state.ticketId = NoTicket
           THEN /\ Commit(ArmPollInterval(w, t.chain))
                /\ UNCHANGED polls
           ELSE /\ BagCardinality(polls) < maxPolls
                /\ Commit(w)
                /\ polls' = polls (+) SetToBag({PollRequest(state.ticketId, TRUE)})
        /\ UNCHANGED call
        /\ Did("TimeoutFire", state.ticketId, NoState, TRUE)
        /\ UNCHANGED <<nextTicket, uploads, cancels, downloads>>

\* the interval fires: pollStatusOnce up to its await
IntervalFire(maxPolls) ==
    \E t \in timers :
        /\ t.kind = "interval"
        /\ IF state.ticketId = NoTicket
           THEN UNCHANGED polls
           ELSE /\ BagCardinality(polls) < maxPolls
                /\ polls' = polls (+) SetToBag({PollRequest(state.ticketId, FALSE)})
        /\ UNCHANGED call
        /\ Did("IntervalFire", state.ticketId, NoState, FALSE)
        /\ UNCHANGED <<state, dom, timers, nextTimerId, nextTicket,
                       uploads, cancels, downloads>>

\* after the first poll the timeout callback goes on to arm the interval
AfterPoll(w, p) == IF p.first THEN ArmPollInterval(w, p.ticket) ELSE w

StatusResponseOk(payloads) ==
    \E p \in BagToSet(polls), status \in payloads :
        /\ Commit(AfterPoll(PollAnswered(World, status), p))
        /\ polls' = polls (-) SetToBag({p})
        /\ UNCHANGED call
        /\ Record(IF status.isNull THEN "StatusFail" ELSE "StatusOk", p.ticket,
                  IF ~status.isNull /\ status.state # NoState THEN status.state ELSE "unknown",
                  p.first, ~status.isNull /\ status.label_meta, status.detail)
        /\ UNCHANGED <<nextTicket, uploads, cancels, downloads>>

StatusResponseFail ==
    \E p \in BagToSet(polls), message \in ErrMessages :
        /\ Commit(AfterPoll(PollFailed(World, message), p))
        /\ polls' = polls (-) SetToBag({p})
        /\ UNCHANGED call
        /\ Did("StatusFail", p.ticket, NoState, p.first)
        /\ UNCHANGED <<nextTicket, uploads, cancels, downloads>>

ClickCancel(maxRequests) ==
    /\ ClickBranch(state) = "cancel"
    /\ BagCardinality(cancels) + BagCardinality(downloads) < maxRequests
    /\ Commit(CancelStarted(World))
    /\ cancels' = cancels (+) SetToBag({state.ticketId})
    /\ UNCHANGED call
    /\ Did("ClickCancel", state.ticketId, NoState, FALSE)
    /\ UNCHANGED <<nextTicket, uploads, polls, downloads>>

CancelResponse ==
    \E c \in BagToSet(cancels), ok \in BOOLEAN, message \in ErrMessages :
        /\ ok => message = ""
        /\ Commit(CancelFinished(World, ok, message))
        /\ cancels' = cancels (-) SetToBag({c})
        /\ UNCHANGED call
        /\ Did(IF ok THEN "CancelOk" ELSE "CancelFail", c, NoState, FALSE)
        /\ UNCHANGED <<nextTicket, uploads, polls, downloads>>

ClickDownload(maxRequests) ==
    /\ ClickBranch(state) = "download"
    /\ BagCardinality(cancels) + BagCardinality(downloads) < maxRequests
    /\ Commit(DownloadStarted(World))
    /\ downloads' = downloads (+) SetToBag({state.ticketId})
    /\ UNCHANGED call
    /\ Did("ClickDownload", state.ticketId, NoState, FALSE)
    /\ UNCHANGED <<nextTicket, uploads, polls, cancels>>

DownloadResponse ==
    \E d \in BagToSet(downloads), ok \in BOOLEAN, message \in ErrMessages :
        /\ ok => message = ""
        /\ Commit(DownloadFinished(World, ok, message))
        /\ downloads' = downloads (-) SetToBag({d})
        /\ UNCHANGED call
        /\ Did(IF ok THEN "DownloadOk" ELSE "DownloadFail", d, NoState, FALSE)
        /\ UNCHANGED <<nextTicket, uploads, polls, cancels>>

ClickReset ==
    /\ ClickBranch(state) = "reset"
    /\ Commit(ResetFrontendState(World))
    /\ UNCHANGED call
    /\ Did("Reset", state.ticketId, NoState, FALSE)
    /\ UNCHANGED nextTicket
    /\ InFlightUnchanged

Next ==
    \/ FileChange
    \/ InputFormatChange
    \/ TargetFormatChange
    \/ FeatureTypeChange
    \/ ClickIgnored
    \/ ClickUploadInvalid
    \/ ClickUpload(MaxJobs)
    \/ UploadResponseOk
    \/ UploadResponseFail
    \/ TimeoutFire(MaxPolls)
    \/ IntervalFire(MaxPolls)
    \/ StatusResponseOk(StatusPayloads)
    \/ StatusResponseFail
    \/ ClickCancel(MaxRequests)
    \/ CancelResponse
    \/ ClickDownload(MaxRequests)
    \/ DownloadResponse
    \/ ClickReset

Spec == Init /\ [][Next]_vars

\* Three Jobs in a row, one request of a kind in flight at a time.
NextDeep ==
    \/ FileChange
    \/ InputFormatChange
    \/ TargetFormatChange
    \/ FeatureTypeChange
    \/ ClickIgnored
    \/ ClickUploadInvalid
    \/ ClickUpload(DeepJobs)
    \/ UploadResponseOk
    \/ UploadResponseFail
    \/ TimeoutFire(DeepPolls)
    \/ IntervalFire(DeepPolls)
    \/ StatusResponseOk(DeepPayloads)
    \/ StatusResponseFail
    \/ ClickCancel(DeepRequests)
    \/ CancelResponse
    \/ ClickDownload(DeepRequests)
    \/ DownloadResponse
    \/ ClickReset

SpecDeep == Init /\ [][NextDeep]_vars

\* The user fills the form and submits, and then leaves the page alone;
\* every status request is answered with a usable payload.  Timers fire
\* and requests are answered in the end.
NextQuiet ==
    \/ FileChange
    \/ InputFormatChange
    \/ TargetFormatChange
    \/ FeatureTypeChange
    \/ ClickUpload(MaxJobs)
    \/ UploadResponseOk
    \/ UploadResponseFail
    \/ TimeoutFire(MaxPolls)
    \/ IntervalFire(MaxPolls)
    \/ StatusResponseOk(QuietPayloads)

SpecQuiet ==
    /\ Init
    /\ [][NextQuiet]_vars
    /\ WF_vars(TimeoutFire(MaxPolls))
    /\ WF_vars(IntervalFire(MaxPolls))
    /\ WF_vars(StatusResponseOk(QuietPayloads))

\* SpecReady: what the server reports of a ticket on its way to ready, and
\* of a ticket that was cancelled
ReadyPayloads ==
    [isNull : {FALSE}, state : {"processing_dataset", "ready", "cancelled"},
     label_meta : {FALSE}, progress : {NoProgress}, detail : {NoDetail}]

\* The user submits Jobs and may cancel one; every upload and every status
\* request succeeds.  Timers fire and requests are answered in the end.
NextReady ==
    \/ FileChange
    \/ InputFormatChange
    \/ TargetFormatChange
    \/ FeatureTypeChange
    \/ ClickUpload(MaxJobs)
    \/ UploadResponseOk
    \/ TimeoutFire(DeepPolls)
    \/ IntervalFire(DeepPolls)
    \/ StatusResponseOk(ReadyPayloads)
    \/ ClickCancel(DeepRequests)
    \/ CancelResponse

SpecReady ==
    /\ Init
    /\ [][NextReady]_vars
    /\ WF_vars(UploadResponseOk)
    /\ WF_vars(TimeoutFire(DeepPolls))
    /\ WF_vars(IntervalFire(DeepPolls))
    /\ WF_vars(StatusResponseOk(ReadyPayloads))
    /\ WF_vars(CancelResponse)

-----------------------------------------------------------------------------
(* One call of a transport function, on a page that is otherwise at rest.  *)

PageUnchanged ==
    UNCHANGED <<state, dom, timers, nextTimerId, nextTicket,
                uploads, polls, cancels, downloads, last>>

\* the function is entered: without its argument it throws, otherwise it
\* calls fetch once and awaits it
TransportCall ==
    /\ call.pc = "start"
    /\ IF RequiredArgumentMissing(call)
       THEN call' = [call EXCEPT !.pc = "done",
                                 !.outcome = Failure(MissingArgumentMessage(call.op))]
       ELSE call' = [call EXCEPT !.pc = "awaiting", !.requests = @ + 1]
    /\ PageUnchanged

\* fetch rejects (no response): the rejection passes through the function
TransportNetworkError ==
    /\ call.pc = "awaiting"
    /\ call' = [call EXCEPT !.pc = "done", !.outcome = Failure("Failed to fetch")]
    /\ PageUnchanged

\* fetch resolves with a response
TransportResponse ==
    /\ call.pc = "awaiting"
    /\ \E r \in Responses :
         call' = [call EXCEPT !.pc = "done", !.response = r,
                              !.outcome = Settle(call.op, r)]
    /\ PageUnchanged

InitTransport ==
    /\ InitPage
    /\ call \in {[NoCall EXCEPT !.op = op, !.arg = arg, !.pc = "start"] :
                    op \in TransportOps, arg \in BOOLEAN}

NextTransport ==
    \/ TransportCall
    \/ TransportNetworkError
    \/ TransportResponse

SpecTransport == InitTransport /\ [][NextTransport]_vars
-----------------------------------------------------------------------------
(* Properties.                                                             *)

\* the run that produced this state handled the answer to a status request
StatusHandled == last.op \in {"StatusOk", "StatusFail"}

\* the interval whose id the controller remembers is live
IntervalLive ==
    \E t \in timers : t.kind = "interval" /\ t.id = state.statusPollIntervalId

\* the timeout whose id the controller remembers is live
TimeoutLive ==
    \E t \in timers : t.kind = "timeout" /\ t.id = state.statusPollTimeoutId

TerminalReports == {"error", "cancelled", "unknown"}

\* C1: the answer to a status request is applied only if the ticket it was
\* requested for is still the active one; otherwise the controller's state,
\* the page and the timers are left as they are.
C1_StaleStatusDiscarded ==
    [][(StatusHandled' /\ last'.ticket # state.ticketId)
         => UNCHANGED <<state, dom, timers>>]_vars

\* C2: once a status answer reporting error, cancelled or unknown has been
\* handled, no poll timer of that Job is live, the first poll included.
C2_TerminalReportStopsPolling ==
    (last.op = "StatusOk" /\ last.rep \in TerminalReports)
        => \A t \in timers : t.chain # last.ticket

\* C4: at most one poll timer is live, and while a Job is active no timer of
\* an earlier Job is.
C4_OnePollChain ==
    /\ Cardinality(timers) <= 1
    /\ state.ticketId # NoTicket => \A t \in timers : t.chain = state.ticketId

\* C5: a submit sends an upload request exactly when a file, an input format
\* and a feature type are chosen and the feature type is crop_objects or a
\* target format is chosen; otherwise it sends nothing, shows the validation
\* error and leaves ticketId, ticketState, isUploading and the timers alone.
\* No other handler sends an upload request.
C5_SubmitValidation ==
    [][LET valid == /\ state.file # NoFile
                    /\ state.inputFormat # ""
                    /\ state.featureType # ""
                    /\ (state.featureType = "crop_objects" \/ state.targetFormat # "")
           submit == last'.op \in {"Submit", "ValidationError"}
           sent == uploads' \ uploads
       IN /\ submit => (sent # {} <=> valid)
          /\ submit /\ valid =>
                sent = {[session_id |-> state'.ticketId,
                         input_format |-> state.inputFormat,
                         target_format |-> IF state.featureType = "crop_objects"
                                           THEN "" ELSE state.targetFormat,
                         feature_type |-> state.featureType]}
          /\ submit /\ ~valid =>
                /\ dom'.status.type = "error"
                /\ dom'.status.kind = "validation"
                /\ state' = state
                /\ timers' = timers
          /\ ~submit => sent = {}]_vars

\* C5: a submit without a target format, the feature type not being
\* crop_objects, has failed validation.
C5_Witness ==
    /\ last.op = "ValidationError"
    /\ state.file # NoFile
    /\ state.inputFormat # ""
    /\ state.featureType = "convert_only"
    /\ state.targetFormat = ""
    /\ dom.status.kind = "validation"

\* C6: while an upload request is in flight the controller holds its ticket,
\* ticketState is uploading, the inputs and the main button are disabled,
\* and it is the only upload request in flight.
C6_UploadingUntilResponse ==
    \A u \in uploads :
        /\ state.ticketId = u.session_id
        /\ state.ticketState = "uploading"
        /\ dom.inputsDisabled
        /\ ~dom.button.enabled
        /\ uploads = {u}

\* C7: after a successful upload ticketState is the reported state, or
\* uploaded when none was reported, and the initial-delay timer of that
\* ticket is armed.
C7_UploadSuccessAdoptsState ==
    last.op = "UploadOk" =>
        /\ state.ticketState = (IF last.rep # NoState THEN last.rep ELSE "uploaded")
        /\ state.ticketId = last.ticket
        /\ TimeoutLive

\* C8: after a failed upload the controller is idle: no ticket, state idle,
\* not uploading, no poll timer live, inputs enabled, main button on submit.
C8_UploadFailureIdle ==
    last.op = "UploadFail" =>
        /\ state.ticketId = NoTicket
        /\ state.ticketState = "idle"
        /\ ~state.isUploading
        /\ timers = {}
        /\ ~dom.inputsDisabled
        /\ dom.button.label = "Upload & Process"

\* C9: after a failed upload the status area or the log shows the failure.
C9_UploadFailureShown ==
    last.op = "UploadFail" =>
        \/ dom.status.kind = "upload_error"
        \/ "Upload error" \in dom.log.lines

\* C10: once a failed status request has been handled, no poll timer of
\* that Job is live, the first poll included.
C10_PollFailureStopsPolling ==
    last.op = "StatusFail" => \A t \in timers : t.chain # last.ticket

\* C3: under SpecQuiet.  While ticketState stays ready the interval the
\* controller remembers stays live; a first poll answered ready leaves the
\* interval armed; ready always shows the enabled Download button; and if
\* the Job stays ready with its interval live, status requests for its
\* ticket are sent again and again.
C3_ReadyKeepsPolling ==
    /\ [][(state.ticketState = "ready" /\ state'.ticketState = "ready" /\ IntervalLive)
            => IntervalLive']_vars
    /\ [][(last'.op = "StatusOk" /\ last'.rep = "ready" /\ last'.first)
            => IntervalLive']_vars
    /\ [](state.ticketState = "ready"
            => dom.button = [label |-> "Download", enabled |-> TRUE])
    /\ (<>[](state.ticketState = "ready" /\ IntervalLive))
            => []<><<polls' = polls (+) SetToBag({PollRequest(state.ticketId, FALSE)})>>_vars

\* C3: a repeated ready report has been handled on an interval poll, the
\* interval is still live and the button offers the download.
C3_Witness ==
    /\ last.op = "StatusOk"
    /\ last.rep = "ready"
    /\ ~last.first
    /\ state.lastStatusState = "ready"
    /\ IntervalLive
    /\ BagCardinality(polls) > 0
    /\ dom.button.label = "Download"

-----------------------------------------------------------------------------
(* Properties: cancel, download, reset, the main button.                   *)

\* the states in which the Job is being processed by the backend
CancellableStates ==
    {"uploaded", "extracting_label_meta", "labels_meta_extracted", "processing_dataset"}

\* the lifecycle states a status payload may report
ReportableStates == CancellableStates \cup {"ready", "error", "cancelled", "unknown"}

\* the controller is idle: no ticket, state idle, inputs enabled
ControllerIdle ==
    /\ state.ticketId = NoTicket
    /\ state.ticketState = "idle"
    /\ ~dom.inputsDisabled

\* C11: a cancel request is sent only while ticketState is uploaded,
\* extracting_label_meta, labels_meta_extracted or processing_dataset, and
\* never while it is uploading.
C11_CancelOnlyWhileProcessing ==
    [][BagCardinality(cancels') > BagCardinality(cancels)
         => state.ticketState \in CancellableStates]_vars

\* C12: a cancel sends the cancel request for the ticket that is active at
\* the click, and once that request has completed, with success or failure,
\* no poll timer is live and the controller is idle.
C12_CancelResetsToIdle ==
    /\ [][BagCardinality(cancels') > BagCardinality(cancels)
            => /\ state.ticketId # NoTicket
               /\ cancels' = cancels (+) SetToBag({state.ticketId})]_vars
    /\ [](last.op \in {"CancelOk", "CancelFail"} => (ControllerIdle /\ timers = {}))

\* C13: a download is sent only while ticketState is ready, and once the
\* request has completed, with success or failure, no poll timer is live and
\* the controller is idle, so not in ready.
C13_DownloadResetsToIdle ==
    /\ [][BagCardinality(downloads') > BagCardinality(downloads)
            => /\ state.ticketState = "ready"
               /\ downloads' = downloads (+) SetToBag({state.ticketId})]_vars
    /\ [](last.op \in {"DownloadOk", "DownloadFail"} => (ControllerIdle /\ timers = {}))

\* C14: a reset from error, cancelled or unknown leaves the controller idle,
\* and from the reset until the next submit no poll timer is live.
C14_ResetClearsTimers ==
    /\ (last.op = "Reset" /\ last.afterReset) => ControllerIdle
    /\ last.afterReset => timers = {}

\* C15: while ticketState is error, cancelled or unknown, only the reset
\* action changes it.
C15_TerminalUntilReset ==
    [][(state.ticketState \in TerminalReports /\ state'.ticketState # state.ticketState)
         => last'.op = "Reset"]_vars

\* C16: the main button matches the Job state: idle, submit, enabled exactly
\* when the form is valid; uploading, disabled; a processing state, Cancel;
\* ready, Download; error, cancelled and unknown, Start over.
C16_ButtonMatchesState ==
    /\ state.ticketState = "idle"
         => dom.button = [label |-> "Upload & Process",
                          enabled |-> IsStateValidForUpload(state)]
    /\ state.ticketState = "uploading" => ~dom.button.enabled
    /\ state.ticketState \in CancellableStates
         => dom.button = [label |-> "Cancel", enabled |-> TRUE]
    /\ state.ticketState = "ready"
         => dom.button = [label |-> "Download", enabled |-> TRUE]
    /\ state.ticketState \in TerminalReports
         => dom.button = [label |-> "Start over", enabled |-> TRUE]

\* C17: a status payload of the active Job that carries label metadata adds
\* a metadata block to the log if it is the first such payload of that Job,
\* and adds nothing if it is a later one.
C17_LabelMetaOncePerJob ==
    [][(last'.op = "StatusOk" /\ last'.meta /\ last'.ticket = state.ticketId)
         => dom'.log.metaBlocks =
                dom.log.metaBlocks + (IF last'.ticket \in last.metaSeen THEN 0 ELSE 1)]_vars

\* C18: after a status payload of the active Job whose state is absent or
\* is none of the lifecycle states, ticketState is unknown, no poll timer of
\* the Job is live and the main button offers the reset.
C18_UnrecognisedStateIsUnknown ==
    (/\ last.op = "StatusOk"
     /\ last.ticket = state.ticketId
     /\ last.rep \notin (ReportableStates \ {"unknown"}))
        => /\ state.ticketState = "unknown"
           /\ \A t \in timers : t.chain # last.ticket
           /\ dom.button = [label |-> "Start over", enabled |-> TRUE]

\* C19: after a failed operation the controller is idle with the submit
\* button, or the main button offers the reset.
C19_FailureLeavesActionable ==
    last.op \in {"ValidationError", "UploadFail", "StatusFail", "CancelFail", "DownloadFail"}
        => \/ /\ state.ticketState = "idle"
              /\ dom.button.label = "Upload & Process"
           \/ dom.button = [label |-> "Start over", enabled |-> TRUE]

\* C20: the upload request a submit sends carries the empty target_format
\* when the feature type is crop_objects, and the selected target format
\* for any other feature type.
C20_TargetFormatSent ==
    [][last'.op = "Submit"
         => \E u \in uploads' :
              /\ uploads' \ uploads = {u}
              /\ u.feature_type = state.featureType
              /\ u.target_format = (IF state.featureType = "crop_objects"
                                    THEN "" ELSE state.targetFormat)]_vars

\* C20: a Job was submitted for crop_objects while a target format was
\* selected in the form, and its upload request is in flight.
C20_Witness ==
    /\ last.op = "Submit"
    /\ state.featureType = "crop_objects"
    /\ state.targetFormat = "yolo"
    /\ \E u \in uploads : u.session_id = state.ticketId /\ u.target_format = ""

-----------------------------------------------------------------------------
(* Properties: requests in flight.                                         *)

\* C21: at most one status request is in flight at any time.
C21_PollsSerialized == BagCardinality(polls) <= 1

\* C22: after a status payload of the active Job that reports error with a
\* detail, no poll timer of the Job is live, the main button offers the
\* reset and the status area shows the detail.
C22_ErrorDetailShown ==
    (/\ last.op = "StatusOk"
     /\ last.ticket = state.ticketId
     /\ last.rep = "error"
     /\ last.detail # NoDetail)
        => /\ \A t \in timers : t.chain # last.ticket
           /\ dom.button = [label |-> "Start over", enabled |-> TRUE]
           /\ dom.status.text = last.detail

\* the runs of the click listener of the main button
ClickOps == {"ClickIgnored", "ValidationError", "Submit", "ClickCancel", "ClickDownload", "Reset"}

\* the runs that end in resetFrontendState
ResetOps == {"Reset", "CancelOk", "CancelFail", "DownloadOk", "DownloadFail", "UploadFail"}

\* what the user has selected in the form
Selections(s) == <<s.file, s.inputFormat, s.targetFormat, s.featureType>>

\* C25: under SpecDeep.  At most one upload request is in flight, and while
\* one is, a click on the main button changes nothing and sends nothing.
C25_OneUploadInFlight ==
    /\ [](Cardinality(uploads) <= 1)
    /\ [][(uploads # {} /\ last'.op \in ClickOps)
            => UNCHANGED <<state, dom, timers, uploads, polls, cancels, downloads>>]_vars

\* C26: the completion of a cancel or download request started for one
\* ticket leaves the ticket, the state, the isUploading flag and the poll
\* timers of a different active Job as they are.
C26_StaleCompletionHarmless ==
    [][(/\ last'.op \in {"CancelOk", "CancelFail", "DownloadOk", "DownloadFail"}
        /\ state.ticketId # NoTicket
        /\ last'.ticket # state.ticketId)
         => /\ state'.ticketId = state.ticketId
            /\ state'.ticketState = state.ticketState
            /\ state'.isUploading = state.isUploading
            /\ timers' = timers]_vars

\* C27: ticketId is null exactly when ticketState is idle.
C27_TicketIffNotIdle == (state.ticketId = NoTicket) <=> (state.ticketState = "idle")

\* C28: for one ticket at most one cancel request and at most one download
\* request is sent (a second one can only be sent while the first is
\* outstanding, a completed one having reset the Job).
C28_OneCancelOneDownload ==
    /\ \A t \in BagToSet(cancels) : CopiesIn(t, cancels) <= 1
    /\ \A t \in BagToSet(downloads) : CopiesIn(t, downloads) <= 1

\* C29: the form inputs are disabled exactly when there is a ticket, and
\* while the ticket stays the same the selections do not change.
C29_InputsLockedWithTicket ==
    /\ [](dom.inputsDisabled <=> state.ticketId # NoTicket)
    /\ [][(state.ticketId # NoTicket /\ state'.ticketId = state.ticketId)
            => Selections(state') = Selections(state)]_vars

\* C29: a status answer has been handled for the active Job, whose inputs
\* are disabled.
C29_Witness ==
    /\ last.op = "StatusOk"
    /\ state.ticketId # NoTicket
    /\ last.ticket = state.ticketId
    /\ dom.inputsDisabled

\* C30: a reset to idle, by Start over, after cancel, after download or
\* after a failed upload, leaves file, inputFormat, targetFormat and
\* featureType as they were.
C30_ResetKeepsSelections ==
    [][last'.op \in ResetOps => Selections(state') = Selections(state)]_vars

\* C30: the Job has been reset by Start over with every selection made.
C30_Witness ==
    /\ last.op = "Reset"
    /\ state.ticketId = NoTicket
    /\ state.file # NoFile
    /\ state.inputFormat # ""
    /\ state.targetFormat # ""
    /\ state.featureType # ""

-----------------------------------------------------------------------------
(* Properties: reaching ready (under SpecReady and SpecQuiet).             *)

\* the runs a user starts
UserOps == ClickOps \cup {"FormChange"}

\* the last run handled a status answer for ticket j
AnswerFor(j) == last.op = "StatusOk" /\ last.ticket = j

\* Job j gets to ready: if from some point on ticket j stays the active
\* ticket after its upload succeeded, the user does nothing, and every
\* status answer for ticket j reports ready, none before having reported
\* a terminal state, then at some point ticketState is ready and the
\* button is the enabled Download.
ReadyReached(j) ==
    (/\ <>[](state.ticketId = j /\ ~state.isUploading /\ last.op \notin UserOps)
     /\ [](AnswerFor(j) => ~IsTerminalReport(last.rep))
     /\ <>[](AnswerFor(j) => last.rep = "ready"))
        => <>(/\ state.ticketId = j
              /\ state.ticketState = "ready"
              /\ dom.button = [label |-> "Download", enabled |-> TRUE])

\* C31: under SpecReady (timers fire and requests are answered in the
\* end, every upload and status request succeeds).  Every Job whose
\* upload succeeded, that the user then leaves alone and that the server
\* brings to ready for good, gets to ticketState ready with the enabled
\* Download button.
C31_ReadyReached == \A j \in 1..MaxJobs : ReadyReached(j)

-----------------------------------------------------------------------------
(* Properties: the transport functions (under SpecTransport).              *)

\* the detail of an error payload is there: the payload is JSON, parses to
\* an object and has a detail that is not null
HasDetail(r) ==
    /\ r.isJson
    /\ r.body.kind = "object"
    /\ r.body.detail.kind \notin {"absent", "null"}

\* the field-level messages of a detail list (an entry without msg has none)
FieldMessages(d) == [i \in 1..Len(d.items) |-> d.items[i].msg]

\* C23: a response that is not ok makes the call fail, with the field-level
\* messages joined with "; " when the detail is a list, the detail as a
\* string when it is a single value, and the generic message with the HTTP
\* status when there is no JSON payload, it does not parse or has no detail.
C23_ErrorNormalised ==
    (call.pc = "done" /\ call.response.arrived /\ ~call.response.ok)
        => /\ call.outcome.kind = "failure"
           /\ call.outcome.message =
                (IF ~HasDetail(call.response)
                 THEN GenericMessage(call.op, call.response.status)
                 ELSE IF call.response.body.detail.kind = "list"
                 THEN JoinMessages(FieldMessages(call.response.body.detail))
                 ELSE StringOf(call.response.body.detail))

\* the detail is one the code reads: it is there, it is not falsy ("", 0),
\* and if it is a list none of its entries is null
UsableDetail(r) ==
    /\ HasDetail(r)
    /\ Truthy(r.body.detail)
    /\ \A i \in 1..Len(r.body.detail.items) : ~r.body.detail.items[i].isNull

\* C23, amended: a response that is not ok makes the call fail, with the
\* field-level messages joined with "; " when the detail is a list without
\* null entries, the detail as a string when it is a single value that is
\* not falsy, and the generic message with the HTTP status otherwise.
C23_ErrorNormalisedUsable ==
    (call.pc = "done" /\ call.response.arrived /\ ~call.response.ok)
        => /\ call.outcome.kind = "failure"
           /\ call.outcome.message =
                (IF ~UsableDetail(call.response)
                 THEN GenericMessage(call.op, call.response.status)
                 ELSE IF call.response.body.detail.kind = "list"
                 THEN JoinMessages(FieldMessages(call.response.body.detail))
                 ELSE StringOf(call.response.body.detail))

\* C23: a call has failed on a response whose detail is a list of two
\* field-level messages, and its message is the two joined.
C23_Witness ==
    /\ call.pc = "done"
    /\ ~call.response.ok
    /\ call.response.body.detail.kind = "list"
    /\ Len(call.response.body.detail.items) = 2
    /\ call.outcome = Failure("field required; bad value")

\* C24: a call sends at most one request, and a call without its required
\* argument fails without sending any.
C24_FailFast ==
    /\ call.requests <= 1
    /\ (call.pc = "done" /\ ~call.arg)
         => (call.requests = 0 /\ call.outcome.kind = "failure")
    /\ call.pc = "done" => call.outcome.kind # "none"

\* C24: a call without its required argument has failed, no request sent.
C24_Witness ==
    /\ call.pc = "done"
    /\ ~call.arg
    /\ call.requests = 0
    /\ call.outcome = Failure(MissingArgumentMessage(call.op))

====
